---- MODULE Spec2Model ----
(***************************************************************************)
(* Warp API Proxy (src/app.py): the account pool (startup loading,         *)
(* round-robin cursor, JWT cache with refresh) and the HTTP handlers that  *)
(* use it, as a state machine.  Handlers run on one cooperative event      *)
(* loop: a handler runs atomically from one await to the next, so every    *)
(* action below is the code between two suspension points.                 *)
(*                                                                         *)
(* Python values: a dict is a function on its keys (an absent key is       *)
(* absent from the DOMAIN), None is the empty tuple, an access token is    *)
(* the one-element tuple naming the refresh token it was issued for.       *)
(***************************************************************************)
EXTENDS Integers, Sequences, FiniteSets, TLC

VARIABLES file, env, phase, env_read, accounts, current_index, jwt_cache,
          now, req, selLog

vars == <<file, env, phase, env_read, accounts, current_index, jwt_cache,
          now, req, selLog>>

(* ------------------------------ bounds --------------------------------- *)
\* the wall clock runs over 0..MaxTime
MaxTime == 1
\* at most MaxSel chat requests with a JSON-object body are ever accepted
MaxSel == 3

\* the requests that can be in flight at once
Reqs == {1, 2}

(* ------------------------- program constants --------------------------- *)
SafetyMargin == 300
DefaultExpiresIn == 3600

(* --------------------------- Python values ----------------------------- *)
None == <<>>
EmptyDict == [k \in {} |-> ""]

\* dict.get(k, default)
DictGet(d, k, default) == IF k \in DOMAIN d THEN d[k] ELSE default

\* truth value of a dict, of a str, of a token-or-None
DictTruthy(d) == DOMAIN d # {}
StrTruthy(s) == s # ""
JwtTruthy(j) == j # None

\* cache[email] = entry
DictPut(cache, email, entry) ==
    [e \in DOMAIN cache \cup {email} |-> IF e = email THEN entry ELSE cache[e]]

(* ------------------------------ inputs --------------------------------- *)
AccA == [email |-> "a", refreshToken |-> "ra"]
AccB == [email |-> "b", refreshToken |-> "rb"]
AccA2 == [email |-> "a", refreshToken |-> "ra2"]
AccANoRT == [email |-> "a"]
AccNoRT == [email |-> "c"]
AccNoKeys == EmptyDict

\* contents of accounts.json / of the decoded WARP_ACCOUNTS_B64: pools of
\* distinct accounts, of accounts that share an email, of accounts without a
\* refresh token or without any key
FilePools == {<<>>, <<AccNoRT, AccNoKeys>>}
EnvPools == {<<AccA, AccB>>, <<AccA, AccA2, AccANoRT>>}

Absent == [state |-> "absent", content |-> <<>>]
Malformed == [state |-> "malformed", content |-> <<>>]
Present(pool) == [state |-> "ok", content |-> pool]

FileVals == {Absent, Malformed} \cup {Present(p) : p \in FilePools}
EnvVals == {Absent, Malformed} \cup {Present(p) : p \in EnvPools}

\* request bodies of POST /v1/chat/completions: not JSON, JSON but not an
\* object (a list, a string, a number), a JSON object.  The object's "stream"
\* value decides nothing but the form of a 200 response, so it is drawn where
\* that response is formed.
Bodies == {"invalid", "nonobject", "object"}

\* the token endpoint's answers to a refresh-token grant
ExpiresInVals == {1, 301}
Issue(refresh_token) == <<refresh_token>>
TokenData(refresh_token) ==
    {[access_token |-> Issue(refresh_token), expires_in |-> e] : e \in ExpiresInVals}
    \cup {[access_token |-> Issue(refresh_token)]}
    \cup {[token_type |-> "Bearer"]}
Outcomes(refresh_token) ==
    {[kind |-> "error", status_code |-> 0, json_ok |-> FALSE, data |-> EmptyDict],
     [kind |-> "response", status_code |-> 401, json_ok |-> TRUE, data |-> EmptyDict],
     [kind |-> "response", status_code |-> 200, json_ok |-> FALSE, data |-> EmptyDict]}
    \cup {[kind |-> "response", status_code |-> 200, json_ok |-> TRUE, data |-> d] :
            d \in TokenData(refresh_token)}

\* answers of the upstream AI endpoint to GET /test's probe
AiOutcomes == {"ok", "blocked", "error"}

(* --------------------------- AccountPool ------------------------------- *)
\* faulty cursors: one that never reaches the last account, one that never
\* wraps, one whose update is lost
NextIndexSkipsLast(i, n) == IF i + 1 >= n - 1 THEN 0 ELSE i + 1
NextIndexNoWrap(i, n) == i + 1
NextIndexLost(i, n) == i

\* the cursor after get_next_account on a pool of n > 0 accounts
NextIndex(i, n) == (i + 1) % n

\* faulty cache tests: a margin of 600 seconds; an entry with exactly the
\* margin left counted as fresh
CacheFreshWideMargin(cache, email, t) ==
    /\ email \in DOMAIN cache
    /\ t < cache[email][2] - 2 * SafetyMargin
CacheFreshInclusive(cache, email, t) ==
    /\ email \in DOMAIN cache
    /\ t <= cache[email][2] - SafetyMargin

\* get_jwt's cache test: the entry exists and is more than the margin from expiry
CacheFresh(cache, email, t) ==
    /\ email \in DOMAIN cache
    /\ t < cache[email][2] - SafetyMargin

\* what get_jwt's cache lookup finds for email at clock value t
EntrySeen(cache, email, t) ==
    IF email \notin DOMAIN cache THEN "absent"
    ELSE IF t < cache[email][2] - SafetyMargin THEN "fresh" ELSE "stale"

\* get_jwt up to its first await: a cache hit or a missing refresh token
\* returns at once, otherwise one POST to the token endpoint is issued
JwtSync(cache, account, t) ==
    LET email == DictGet(account, "email", "")
        refresh_token == DictGet(account, "refreshToken", "")
    IN  IF CacheFresh(cache, email, t)
        THEN [returned |-> TRUE, jwt |-> cache[email][1], calls |-> 0]
        ELSE IF ~StrTruthy(refresh_token)
        THEN [returned |-> TRUE, jwt |-> None, calls |-> 0]
        ELSE [returned |-> FALSE, jwt |-> None, calls |-> 1]

\* faulty get_jwt: an entry that exists is not overwritten
JwtResumeKeepsFirst(cache, account, out, t) ==
    LET email == DictGet(account, "email", "")
    IN  IF out.kind = "response" /\ out.status_code = 200 /\ out.json_ok
        THEN LET jwt == DictGet(out.data, "access_token", None)
                 expires_in == DictGet(out.data, "expires_in", DefaultExpiresIn)
             IN  [cache |-> IF email \in DOMAIN cache THEN cache
                            ELSE DictPut(cache, email, <<jwt, t + expires_in>>),
                  jwt |-> jwt]
        ELSE [cache |-> cache, jwt |-> None]

\* faulty get_jwt: the expiry is stored without the clock value
JwtResumeNoClock(cache, account, out, t) ==
    LET email == DictGet(account, "email", "")
    IN  IF out.kind = "response" /\ out.status_code = 200 /\ out.json_ok
        THEN LET jwt == DictGet(out.data, "access_token", None)
                 expires_in == DictGet(out.data, "expires_in", DefaultExpiresIn)
             IN  [cache |-> DictPut(cache, email, <<jwt, expires_in>>),
                  jwt |-> jwt]
        ELSE [cache |-> cache, jwt |-> None]

\* faulty get_jwt: a failed refresh evicts the account's entry
JwtResumeEvicts(cache, account, out, t) ==
    LET email == DictGet(account, "email", "")
    IN  IF out.kind = "response" /\ out.status_code = 200 /\ out.json_ok
        THEN LET jwt == DictGet(out.data, "access_token", None)
                 expires_in == DictGet(out.data, "expires_in", DefaultExpiresIn)
             IN  [cache |-> DictPut(cache, email, <<jwt, t + expires_in>>),
                  jwt |-> jwt]
        ELSE [cache |-> [e \in DOMAIN cache \ {email} |-> cache[e]], jwt |-> None]

\* get_jwt after the await: the answer out is processed at clock value t
JwtResume(cache, account, out, t) ==
    LET email == DictGet(account, "email", "")
    IN  IF out.kind = "response" /\ out.status_code = 200 /\ out.json_ok
        THEN LET jwt == DictGet(out.data, "access_token", None)
                 expires_in == DictGet(out.data, "expires_in", DefaultExpiresIn)
             IN  [cache |-> DictPut(cache, email, <<jwt, t + expires_in>>),
                  jwt |-> jwt]
        ELSE [cache |-> cache, jwt |-> None]

(* ----------------------------- requests -------------------------------- *)
\* ep, body: the request; pc: where its handler is; acct: the position in
\* accounts of the account it uses (0: none); jwt: what get_jwt returned;
\* status, detail, count: the response.  History of its get_jwt call: seen is
\* what the cache lookup found, calls the POSTs issued to the token endpoint,
\* issued the clock value at which the POST awaited was issued (0 when none
\* is awaited), ok200 whether the token endpoint answered 200 with a JSON body.
Idle == [ep |-> "none", pc |-> "idle", body |-> "none", acct |-> 0,
         seen |-> "none", calls |-> 0, issued |-> 0, ok200 |-> FALSE,
         jwt |-> None,
         status |-> 0, detail |-> "", count |-> 0]

\* the HTTP 200 answers with a JSON body
Ok200(out) == out.kind = "response" /\ out.status_code = 200 /\ out.json_ok

\* request s calls get_jwt(account)
CallJwt(s, account) ==
    [s EXCEPT !.seen = EntrySeen(jwt_cache, DictGet(account, "email", ""), now)]

Free(r) == phase = "running" /\ req[r].pc \in {"idle", "done"}

\* a handler returns (or raises HTTPException): the request has its response
Respond(s, code, text) == [s EXCEPT !.pc = "done", !.status = code, !.detail = text]

\* faulty handler: a request without a token waits for the token endpoint again
ChatFinishRetries(s, jwt, stream) ==
    IF ~JwtTruthy(jwt)
    THEN [s EXCEPT !.pc = "awaitToken", !.issued = now]
    ELSE Respond([s EXCEPT !.jwt = jwt], 200,
                 IF stream THEN "sse [DONE]" ELSE "json")

\* faulty handler: the token is not tested before the response is built
ChatFinishUnchecked(s, jwt, stream) ==
    Respond([s EXCEPT !.jwt = jwt], 200, IF stream THEN "sse [DONE]" ELSE "json")

\* chat_completions from get_jwt's return value to the response
ChatFinish(s, jwt, stream) ==
    IF ~JwtTruthy(jwt)
    THEN Respond([s EXCEPT !.jwt = jwt], 500, "Failed to get JWT")
    ELSE Respond([s EXCEPT !.jwt = jwt], 200,
                 IF stream THEN "sse [DONE]" ELSE "json")

\* test_connection from get_jwt's return value to the probe or the result
TestFinish(s, jwt) ==
    IF JwtTruthy(jwt)
    THEN [s EXCEPT !.jwt = jwt, !.pc = "awaitAI"]
    ELSE Respond([s EXCEPT !.jwt = jwt], 200, "token_refresh failed")

\* chat requests accepted with an object body and not yet past selection
Pending == Cardinality({r \in Reqs : /\ req[r].ep = "chat"
                                    /\ req[r].pc = "awaitBody"
                                    /\ req[r].body = "object"})

(* ------------------------------ actions -------------------------------- *)
Init ==
    /\ file \in FileVals
    /\ env \in EnvVals
    /\ phase = "boot"
    /\ env_read = FALSE
    /\ accounts = <<>>
    /\ current_index = 0
    /\ jwt_cache = [e \in {} |-> <<None, 0>>]
    /\ now = 0
    /\ req = [r \in Reqs |-> Idle]
    /\ selLog = <<>>

\* faulty loader: the environment blob is read first
LoadAccountsEnvFirst ==
    /\ phase = "boot"
    /\ IF env.state = "ok"
       THEN env_read' = TRUE /\ phase' = "running" /\ accounts' = env.content
       ELSE /\ env_read' = (env.state # "absent")
            /\ phase' = IF file.state = "malformed" THEN "crashed" ELSE "running"
            /\ accounts' = IF file.state = "ok" THEN file.content ELSE accounts
    /\ UNCHANGED <<file, env, current_index, jwt_cache, now, req, selLog>>

\* AccountPool.load_accounts, called by __init__ at import
LoadAccounts ==
    /\ phase = "boot"
    /\ IF file.state # "absent"
       THEN /\ env_read' = FALSE
            /\ IF file.state = "malformed"
               THEN phase' = "crashed" /\ accounts' = accounts
               ELSE phase' = "running" /\ accounts' = file.content
       ELSE /\ env_read' = TRUE
            /\ phase' = "running"
            /\ accounts' = IF env.state = "ok" THEN env.content ELSE accounts
    /\ UNCHANGED <<file, env, current_index, jwt_cache, now, req, selLog>>

\* time.time() advances
Tick ==
    /\ phase = "running"
    /\ now < MaxTime
    /\ now' = now + 1
    /\ UNCHANGED <<file, env, phase, env_read, accounts, current_index,
                   jwt_cache, req, selLog>>

\* GET /
Root(r) ==
    /\ Free(r)
    /\ req' = [req EXCEPT ![r] =
                 Respond([Idle EXCEPT !.ep = "root", !.count = Len(accounts)], 200,
                         IF accounts # <<>> THEN "ready" ELSE "no_accounts")]
    /\ UNCHANGED <<file, env, phase, env_read, accounts, current_index,
                   jwt_cache, now, selLog>>

\* GET /health
Health(r) ==
    /\ Free(r)
    /\ req' = [req EXCEPT ![r] =
                 Respond([Idle EXCEPT !.ep = "health", !.count = Len(accounts)], 200, "ok")]
    /\ UNCHANGED <<file, env, phase, env_read, accounts, current_index,
                   jwt_cache, now, selLog>>

\* GET /v1/models
Models(r) ==
    /\ Free(r)
    /\ req' = [req EXCEPT ![r] = Respond([Idle EXCEPT !.ep = "models"], 200, "list")]
    /\ UNCHANGED <<file, env, phase, env_read, accounts, current_index,
                   jwt_cache, now, selLog>>

\* POST /v1/chat/completions arrives; the handler awaits request.json()
ChatArrive(r, body) ==
    /\ Free(r)
    /\ body = "object" => Len(selLog) + Pending < MaxSel
    /\ req' = [req EXCEPT ![r] = [Idle EXCEPT !.ep = "chat", !.pc = "awaitBody",
                                              !.body = body]]
    /\ UNCHANGED <<file, env, phase, env_read, accounts, current_index,
                   jwt_cache, now, selLog>>

\* chat_completions from the body to the response or to get_jwt's await
ChatBody(r) ==
    LET s == req[r] IN
    /\ s.ep = "chat" /\ s.pc = "awaitBody"
    /\ IF s.body = "invalid"
       THEN /\ req' = [req EXCEPT ![r] = Respond(s, 400, "Invalid JSON")]
            /\ UNCHANGED <<current_index, selLog>>
       ELSE IF s.body = "nonobject"
       THEN \* body.get raises AttributeError, which nothing catches
            /\ req' = [req EXCEPT ![r] = Respond(s, 500, "Internal Server Error")]
            /\ UNCHANGED <<current_index, selLog>>
       ELSE IF accounts = <<>>
       THEN /\ req' = [req EXCEPT ![r] = Respond(s, 500, "No accounts available")]
            /\ UNCHANGED <<current_index, selLog>>
       ELSE LET pos == current_index + 1
                account == accounts[pos]
                picked == [s EXCEPT !.acct = pos]
                called == CallJwt(picked, account)
                j == JwtSync(jwt_cache, account, now)
            IN  /\ current_index' = NextIndex(current_index, Len(accounts))
                /\ selLog' = Append(selLog, pos)
                /\ \E stream \in BOOLEAN :
                     req' = [req EXCEPT ![r] =
                       IF ~DictTruthy(account)
                       THEN Respond(picked, 500, "No accounts available")
                       ELSE IF j.returned
                       THEN ChatFinish(called, j.jwt, stream)
                       ELSE [called EXCEPT !.pc = "awaitToken", !.calls = j.calls,
                                                  !.issued = now]]
    /\ UNCHANGED <<file, env, phase, env_read, accounts, jwt_cache, now>>

\* GET /test up to the response or to get_jwt's await
TestStart(r) ==
    /\ Free(r)
    /\ LET s == [Idle EXCEPT !.ep = "test", !.count = Len(accounts)] IN
       req' = [req EXCEPT ![r] =
           IF accounts = <<>>
           THEN Respond(s, 200, "No accounts loaded")
           ELSE LET j == JwtSync(jwt_cache, accounts[1], now)
                    called == CallJwt([s EXCEPT !.acct = 1], accounts[1])
                IN  IF j.returned
                    THEN TestFinish(called, j.jwt)
                    ELSE [called EXCEPT !.pc = "awaitToken", !.calls = j.calls,
                                                  !.issued = now]]
    /\ UNCHANGED <<file, env, phase, env_read, accounts, current_index,
                   jwt_cache, now, selLog>>

\* the token endpoint answers (or the POST fails); get_jwt and its caller resume
TokenResponse(r) ==
    LET s == req[r]
        account == accounts[s.acct]
    IN  /\ s.pc = "awaitToken"
        /\ \E out \in Outcomes(DictGet(account, "refreshToken", "")), stream \in BOOLEAN :
              LET j == JwtResume(jwt_cache, account, out, now)
                  got == [s EXCEPT !.ok200 = Ok200(out), !.issued = 0]
              IN  /\ jwt_cache' = j.cache
                  /\ req' = [req EXCEPT ![r] =
                         IF s.ep = "chat" THEN ChatFinish(got, j.jwt, stream)
                                          ELSE TestFinish(got, j.jwt)]
        /\ UNCHANGED <<file, env, phase, env_read, accounts, current_index,
                       now, selLog>>

\* the AI endpoint answers GET /test's probe (or the GET fails)
TestProbe(r) ==
    /\ req[r].ep = "test" /\ req[r].pc = "awaitAI"
    /\ \E ai \in AiOutcomes :
          req' = [req EXCEPT ![r] = Respond(req[r], 200, ai)]
    /\ UNCHANGED <<file, env, phase, env_read, accounts, current_index,
                   jwt_cache, now, selLog>>

Next ==
    \/ LoadAccounts
    \/ Tick
    \/ \E r \in Reqs : Root(r)
    \/ \E r \in Reqs : Health(r)
    \/ \E r \in Reqs : Models(r)
    \/ \E r \in Reqs : \E body \in Bodies : ChatArrive(r, body)
    \/ \E r \in Reqs : ChatBody(r)
    \/ \E r \in Reqs : TestStart(r)
    \/ \E r \in Reqs : TokenResponse(r)
    \/ \E r \in Reqs : TestProbe(r)

Spec == Init /\ [][Next]_vars

\* the event loop resumes every handler whose awaited body, token-endpoint
\* answer (or 30 s timeout) or probe answer is there
Fairness ==
    \A r \in Reqs :
       /\ WF_vars(ChatBody(r))
       /\ WF_vars(TokenResponse(r))
       /\ WF_vars(TestProbe(r))

\* deployments without accounts.json: no pool, or the pool of
\* WARP_ACCOUNTS_JSON whose accounts share an email or lack a refresh token
FairInit ==
    /\ Init
    /\ file = Absent
    /\ env \in {Absent, Present(<<AccA, AccA2, AccANoRT>>)}

FairSpec == FairInit /\ [][Next]_vars /\ Fairness

(* ------------------------------ claims --------------------------------- *)
\* the cache key of the account at position i
EmailAt(i) == DictGet(accounts[i], "email", "")

\* the account at position i has a refresh token
HasRefreshToken(i) == DictGet(accounts[i], "refreshToken", "") # ""

\* in this step request r calls get_jwt (for the account at req'[r].acct)
JwtCallStep(r) ==
    /\ req'[r] # req[r]
    /\ req[r].pc \in {"idle", "done", "awaitBody"}
    /\ req'[r].seen # "none"

\* in this step request r's get_jwt processes the token endpoint's answer
JwtAnswerStep(r) == req[r].pc = "awaitToken" /\ req'[r] # req[r]

\* after this step the entry of r's account is the one get_jwt has just stored
EntryStored(r) ==
    LET e == EmailAt(req[r].acct) IN
    /\ e \in DOMAIN jwt_cache'
    /\ jwt_cache'[e][1] = req'[r].jwt
    /\ \E ei \in ExpiresInVals \cup {DefaultExpiresIn} : jwt_cache'[e][2] = now + ei
    /\ \A o \in DOMAIN jwt_cache : o # e => jwt_cache'[o] = jwt_cache[o]
    /\ DOMAIN jwt_cache' = DOMAIN jwt_cache \cup {e}

\* C1: on a non-empty pool of N accounts, any N consecutive selections of
\* get_next_account are the N positions of the pool, each once, and the k-th
\* and the (k+N)-th selection are the same account.
C1_RoundRobin ==
    LET N == Len(accounts) IN
    N > 0 =>
      /\ \A k \in 1..Len(selLog) :
            k + N - 1 <= Len(selLog) => {selLog[i] : i \in k..(k + N - 1)} = 1..N
      /\ \A k \in 1..Len(selLog) :
            k + N <= Len(selLog) =>
               selLog[k] = selLog[k + N] /\ accounts[selLog[k]] = accounts[selLog[k + N]]

C1_Witness ==
    /\ Len(accounts) >= 2
    /\ Len(selLog) > Len(accounts)

\* C2: a get_jwt call that finds an entry (token, expiresAt) with
\* now < expiresAt - 300 for the account's email returns that token, issues no
\* call to the token endpoint and leaves the whole cache unchanged.
C2_FreshEntryIsReturned ==
    [][\A r \in Reqs :
          (/\ JwtCallStep(r)
           /\ EmailAt(req'[r].acct) \in DOMAIN jwt_cache
           /\ now < jwt_cache[EmailAt(req'[r].acct)][2] - 300)
          => /\ req'[r].jwt = jwt_cache[EmailAt(req'[r].acct)][1]
             /\ req'[r].calls = 0
             /\ req'[r].pc # "awaitToken"
             /\ jwt_cache' = jwt_cache]_vars

C2_Witness ==
    \E r \in Reqs :
       /\ req[r].ep = "chat" /\ req[r].pc = "done"
       /\ req[r].seen = "fresh" /\ req[r].calls = 0
       /\ req[r].status = 200
       /\ Cardinality(DOMAIN jwt_cache) = 2

\* C3 as stated: a get_jwt call that finds an entry with now >= expiresAt - 300
\* issues exactly one call to the token endpoint and stores a new entry for
\* the account.
C3_StaleEntryAlwaysRefreshed ==
    [][\A r \in Reqs :
          /\ (/\ JwtCallStep(r)
              /\ EmailAt(req'[r].acct) \in DOMAIN jwt_cache
              /\ now >= jwt_cache[EmailAt(req'[r].acct)][2] - 300)
             => req'[r].pc = "awaitToken" /\ req'[r].calls = 1
          /\ (JwtAnswerStep(r) /\ req[r].seen = "stale")
             => req'[r].calls = 1 /\ req'[r].pc # "awaitToken" /\ EntryStored(r)]_vars

\* C3 amended: a get_jwt call that finds an entry with now >= expiresAt - 300
\* issues exactly one call to the token endpoint when the account has a refresh
\* token and none otherwise; the account's entry is overwritten only when the
\* answer is HTTP 200 with a JSON body, and on every other outcome the cache
\* is left as it was.
C3_StaleEntryRefresh ==
    [][\A r \in Reqs :
          /\ (/\ JwtCallStep(r)
              /\ EmailAt(req'[r].acct) \in DOMAIN jwt_cache
              /\ now >= jwt_cache[EmailAt(req'[r].acct)][2] - 300)
             => IF HasRefreshToken(req'[r].acct)
                THEN /\ req'[r].pc = "awaitToken" /\ req'[r].calls = 1
                     /\ jwt_cache' = jwt_cache
                ELSE /\ req'[r].pc # "awaitToken" /\ req'[r].calls = 0
                     /\ req'[r].jwt = None
                     /\ jwt_cache' = jwt_cache
          /\ (JwtAnswerStep(r) /\ req[r].seen = "stale")
             => /\ req'[r].calls = 1
                /\ req'[r].pc # "awaitToken"
                /\ IF req'[r].ok200 THEN EntryStored(r) ELSE jwt_cache' = jwt_cache]_vars

C3_Witness ==
    \E r \in Reqs :
       /\ req[r].pc = "done" /\ req[r].seen = "stale"
       /\ req[r].calls = 1 /\ req[r].ok200
       /\ EmailAt(req[r].acct) \in DOMAIN jwt_cache
       /\ jwt_cache[EmailAt(req[r].acct)][1] = req[r].jwt
       /\ now < jwt_cache[EmailAt(req[r].acct)][2] - 300

\* C4: with an empty pool the cursor stays 0 and nothing is selected, and
\* every chat request whose body parses as JSON is answered 500 'No accounts
\* available', with no token-endpoint call and no unhandled exception.
C4_EmptyPoolAnswer ==
    (phase = "running" /\ accounts = <<>>) =>
       /\ current_index = 0
       /\ selLog = <<>>
       /\ \A r \in Reqs :
             (req[r].ep = "chat" /\ req[r].pc = "done" /\ req[r].body # "invalid")
             => /\ req[r].status = 500
                /\ req[r].detail = "No accounts available"
                /\ req[r].calls = 0

\* C5: a chat request whose body is malformed (not JSON, or JSON that is not
\* an object) is answered 400 and never 5xx.
C5_MalformedBodyIs400 ==
    \A r \in Reqs :
       (req[r].ep = "chat" /\ req[r].pc = "done" /\ req[r].body \in {"invalid", "nonobject"})
       => req[r].status = 400

\* C6: a chat request with a JSON-object body on a non-empty pool is answered
\* 200 (JSON or SSE ending with [DONE]) exactly when get_jwt returned a token
\* for the account selected for it, and 500 otherwise; the handler asks for at
\* most one token, and once it waits for it, it selects no other account.
C6_Answered ==
    \A r \in Reqs :
       (/\ req[r].ep = "chat" /\ req[r].pc = "done"
        /\ req[r].body = "object" /\ accounts # <<>>)
       => /\ req[r].acct \in 1..Len(accounts)
          /\ req[r].status \in {200, 500}
          /\ req[r].status = 200 <=> req[r].jwt # None
          /\ req[r].status = 200 => req[r].detail \in {"json", "sse [DONE]"}
          /\ req[r].status = 500 =>
                req[r].detail \in {"Failed to get JWT", "No accounts available"}
          /\ req[r].detail = "No accounts available" <=> accounts[req[r].acct] = EmptyDict
          /\ req[r].calls <= 1

C6_NoFallback ==
    \A r \in Reqs :
       (req[r].ep = "chat" /\ req[r].pc = "awaitToken" /\ req'[r] # req[r])
       => /\ req'[r].pc = "done"
          /\ req'[r].acct = req[r].acct
          /\ req'[r].calls = req[r].calls
          /\ current_index' = current_index
          /\ selLog' = selLog

C6_OneAccountDecides == []C6_Answered /\ [][C6_NoFallback]_vars

C6_Witness ==
    \E r, q \in Reqs :
       /\ req[r].ep = "chat" /\ req[r].pc = "done" /\ req[r].status = 200
       /\ req[q].ep = "chat" /\ req[q].pc = "done" /\ req[q].status = 500
       /\ req[q].detail = "Failed to get JWT" /\ req[q].calls = 1
       /\ req[q].acct # req[r].acct

\* C7: when get_jwt obtains no token because the refresh token is missing, the
\* answer is not 200 or the POST fails, it returns None, has issued at most one
\* call (none when the refresh token is missing) and leaves the cache unchanged.
C7_FailureKeepsCache ==
    [][\A r \in Reqs :
          /\ (/\ JwtCallStep(r)
              /\ ~HasRefreshToken(req'[r].acct)
              /\ ~(/\ EmailAt(req'[r].acct) \in DOMAIN jwt_cache
                   /\ now < jwt_cache[EmailAt(req'[r].acct)][2] - 300))
             => /\ req'[r].jwt = None
                /\ req'[r].calls = 0
                /\ req'[r].pc # "awaitToken"
                /\ jwt_cache' = jwt_cache
          /\ (JwtAnswerStep(r) /\ ~req'[r].ok200)
             => /\ req'[r].jwt = None
                /\ req'[r].calls = 1
                /\ req'[r].pc # "awaitToken"
                /\ jwt_cache' = jwt_cache]_vars

C7_Witness ==
    \E r \in Reqs :
       /\ req[r].pc = "done" /\ req[r].seen = "stale"
       /\ req[r].calls = 1 /\ ~req[r].ok200 /\ req[r].jwt = None
       /\ EmailAt(req[r].acct) \in DOMAIN jwt_cache

\* C8: the cursor is in [0, len(accounts)) whenever the pool is non-empty, and
\* is 0 when it is empty.
C8_CursorInRange ==
    IF accounts = <<>>
    THEN current_index = 0
    ELSE 0 <= current_index /\ current_index < Len(accounts)

C8_Witness ==
    /\ Len(accounts) >= 2
    /\ Len(selLog) = Len(accounts)
    /\ current_index = 0

\* C9: when accounts.json is present the environment blob is never read, and
\* once loading has completed the account list is the file's content; the
\* blob is read only when the file is absent.
C9_FileWins ==
    /\ env_read => file.state = "absent"
    /\ (phase = "running" /\ file.state = "ok") => accounts = file.content
    /\ (phase # "boot" /\ file.state = "absent") => env_read
    /\ (file.state # "absent") => (accounts = <<>> \/ accounts = file.content)

C9_Witness ==
    /\ phase = "running"
    /\ file.state = "ok" /\ file.content # <<>>
    /\ env.state = "ok" /\ env.content # file.content
    /\ accounts = file.content
    /\ \E r \in Reqs : req[r].ep = "root" /\ req[r].count = Len(file.content)

\* C10: startup never ends in an uncaught exception: loading completes for
\* every configuration, and a malformed source gives an empty pool, which /
\* reports as status 'no_accounts' with accounts = 0.
C10_NoFatalError ==
    /\ phase # "crashed"
    /\ (/\ phase = "running"
        /\ \/ file.state = "malformed"
           \/ file.state = "absent" /\ env.state = "malformed")
       => /\ accounts = <<>>
          /\ \A r \in Reqs :
                (req[r].ep = "root" /\ req[r].pc = "done")
                => req[r].detail = "no_accounts" /\ req[r].count = 0

BothRefresh(r, q) ==
    /\ q # r
    /\ req[q].acct = req[r].acct
    /\ req[q].calls = 1 /\ req[r].calls = 1

C13_AtomicSelection ==
    LET N == Len(accounts) IN
    N > 0 =>
      /\ \A i \in 1..Len(selLog) : selLog[i] = ((i - 1) % N) + 1
      /\ current_index = Len(selLog) % N
      /\ \A i, j \in 1..Len(selLog) : (i < j /\ j - i < N) => selLog[i] # selLog[j]
      /\ \A r \in Reqs :
            (req[r].ep = "chat" /\ req[r].acct # 0)
            => \E i \in 1..Len(selLog) : selLog[i] = req[r].acct

C13_Witness ==
    /\ \A r \in Reqs : req[r].ep = "chat" /\ req[r].pc = "awaitToken"
    /\ \E r, q \in Reqs : req[r].acct # req[q].acct
    /\ Len(selLog) = 3

\* C14: on a non-empty pool every chat request that gets past the parsing of
\* its body advances the cursor by one (mod N), whatever get_jwt then returns;
\* a chat request rejected for an unparseable body and every request to /,
\* /health, /v1/models and /test leave the cursor as it is, and /test uses
\* accounts[0] and changes at most the cache.
C14_CursorCountsParsedBodies ==
    [][\A r \in Reqs :
          /\ (/\ req[r].ep = "chat" /\ req[r].pc = "awaitBody"
              /\ req'[r] # req[r] /\ accounts # <<>>)
             => IF req[r].body = "invalid"
                THEN current_index' = current_index /\ req'[r].status = 400
                ELSE current_index' = (current_index + 1) % Len(accounts)
          /\ JwtAnswerStep(r) => current_index' = current_index
          /\ (req'[r] # req[r] /\ req'[r].ep \in {"root", "health", "models", "test"})
             => /\ current_index' = current_index
                /\ selLog' = selLog
                /\ req'[r].acct \in {0, 1}
                /\ req'[r].ep # "test" => jwt_cache' = jwt_cache]_vars

\* C15: a token that get_jwt returns for an account was issued for that
\* account's refresh token.
C15_TokenOfOwnAccount ==
    \A r \in Reqs :
       (req[r].acct # 0 /\ req[r].jwt # None)
       => req[r].jwt = <<DictGet(accounts[req[r].acct], "refreshToken", "")>>

\* C16: no cache entry holds None as its token, and no chat request whose
\* account had a fresh entry is answered 'Failed to get JWT'.
C16_EntriesHoldTokens ==
    /\ \A e \in DOMAIN jwt_cache : jwt_cache[e][1] # None
    /\ \A r \in Reqs :
          (req[r].ep = "chat" /\ req[r].pc = "done" /\ req[r].seen = "fresh")
          => req[r].status = 200

\* C17: under fair scheduling every chat request that has arrived is
\* eventually answered 200, 400 or 500, and no get_jwt call issues more than
\* one POST to the token endpoint.
C17_ChatAnswered ==
    /\ [](\A r \in Reqs : req[r].calls <= 1)
    /\ \A r \in Reqs :
          (req[r].ep = "chat" /\ req[r].pc \in {"awaitBody", "awaitToken"})
          ~> (req[r].ep = "chat" /\ req[r].pc = "done" /\ req[r].status \in {200, 400, 500})

C17_Witness ==
    \E r, q \in Reqs :
       /\ r # q
       /\ req[r].ep = "chat" /\ req[r].pc = "done" /\ req[r].calls = 1
       /\ req[r].status = 500
       /\ req[q].ep = "chat" /\ req[q].pc = "awaitToken"

====
